---- MODULE Spec2Model ----
(***************************************************************************)
(* Model of the wormhole audio visualizer (src/main.js): the singleton     *)
(* AudioEnvironment, its feature extraction (getAverageLoudness,           *)
(* getSimplifiedValues), the start-button handler and the animation loop.  *)
(***************************************************************************)
EXTENDS Integers, Sequences, FiniteSets, TLC

\* ---------------------------------------------------------------- constants
LOOP_TIME == 5000
HUE_ROTATE_AMOUNT == 1
FFT_SIZE == 2048
SIMPLE_BINS == 16

\* ------------------------------------------------------------------ state
VARIABLES
  shared,        \* AudioEnvironment.shared: Null, or the reference of an AudioEnvironment
  audioEnvs,     \* the AudioEnvironment objects, by the handler that constructed them
  streams,       \* the capture streams getUserMedia has granted, by handler
  contexts,      \* the AudioContexts (each with its analyser) created, by handler
  clicks,        \* click events dispatched to the start button
  pc,            \* where each click handler stands
  mic,           \* the outcome of each handler's getUserMedia call
  ret,           \* the value the call a handler awaits has settled with
  error,         \* the error each handler's promise rejected with
  startDisplay,  \* startButton.style.display
  viz,           \* the state each initializeVisualizer call closed over
  timers,        \* pending setTimeout callbacks, by handler
  rafs,          \* pending requestAnimationFrame callbacks, by handler
  console,       \* what was logged
  subject,       \* SpecFeature: the AudioEnvironment whose methods are called
  bins,          \* SpecFeature: the array handed to getSimplifiedValues
  loudness,      \* SpecFeature: what getAverageLoudness returned
  simplifyRun    \* SpecFeature: the locals getSimplifiedValues ended with

vars == <<shared, audioEnvs, streams, contexts, clicks, pc, mic, ret, error,
          startDisplay, viz, timers, rafs, console, subject, bins, loudness, simplifyRun>>

sessionVars == <<shared, audioEnvs, streams, contexts, clicks, pc, mic, ret, error,
                 startDisplay, viz, timers, rafs, console>>

featureVars == <<subject, bins, loudness, simplifyRun>>

\* ------------------------------------------------------------------- bounds
MaxClicks == 2      \* clicks on the start button
MaxTicks == 3       \* ticks a loop runs under Spec
LoopTicks == 940    \* ticks the loop runs under SpecLoop (tubeTick wraps in tick 936)
MaxL == 4           \* longest spectral frame under SpecFeature
MaxN == 3           \* longest output array under SpecFeature

\* ------------------------------------------------------ JavaScript numbers
\* A number is [k, n, d]: k = "num" is the rational n/d (d > 0, lowest terms),
\* k = "NaN", "Infinity" and "undefined" are the non-finite values.
RECURSIVE GCD(_, _)
GCD(a, b) == IF b = 0 THEN a ELSE GCD(b, a % b)

Abs(x) == IF x < 0 THEN -x ELSE x

NaN == [k |-> "NaN", n |-> 0, d |-> 0]
Infinity == [k |-> "Infinity", n |-> 0, d |-> 0]
Undefined == [k |-> "undefined", n |-> 0, d |-> 0]

Num(n, d) ==
  LET g == GCD(Abs(n), d)
  IN  [k |-> "num", n |-> n \div g, d |-> d \div g]

Whole(n) == [k |-> "num", n |-> n, d |-> 1]

IsNum(a) == a.k = "num"

Join(a, b) ==
  IF a.k \in {"NaN", "undefined"} \/ b.k \in {"NaN", "undefined"} THEN NaN ELSE Infinity

Add(a, b) ==
  IF IsNum(a) /\ IsNum(b) THEN Num(a.n * b.d + b.n * a.d, a.d * b.d) ELSE Join(a, b)

Sub(a, b) ==
  IF IsNum(a) /\ IsNum(b) THEN Num(a.n * b.d - b.n * a.d, a.d * b.d) ELSE Join(a, b)

Mul(a, b) ==
  IF IsNum(a) /\ IsNum(b) THEN Num(a.n * b.n, a.d * b.d) ELSE Join(a, b)

Div(a, b) ==
  IF IsNum(a) /\ IsNum(b)
  THEN IF b.n = 0
       THEN IF a.n = 0 THEN NaN ELSE Infinity
       ELSE IF b.n > 0 THEN Num(a.n * b.d, a.d * b.n) ELSE Num(-(a.n * b.d), -(a.d * b.n))
  ELSE Join(a, b)

\* a === b on numbers (NaN is equal to nothing)
StrictEq(a, b) == IsNum(a) /\ IsNum(b) /\ a.n * b.d = b.n * a.d

Less(a, b) == IsNum(a) /\ IsNum(b) /\ a.n * b.d < b.n * a.d

LessEq(a, b) == IsNum(a) /\ IsNum(b) /\ a.n * b.d <= b.n * a.d

MathAbs(a) == IF IsNum(a) THEN [a EXCEPT !.n = Abs(a.n)] ELSE a

\* a % m for a >= 0 and m > 0
Mod(a, m) ==
  IF IsNum(a) /\ IsNum(m) /\ m.n # 0
  THEN Sub(a, Mul(m, Whole((a.n * m.d) \div (a.d * m.n))))
  ELSE NaN

MathMin(a, b) ==
  IF IsNum(a) /\ IsNum(b) THEN (IF Less(b, a) THEN b ELSE a) ELSE Join(a, b)

\* Math.floor(0.7 * x) for an integer x: 0.7 * x in doubles floors to
\* (7 * x) \div 10 for every x below 90, and for x = 1024.
Floor07(x) == (7 * x) \div 10

\* ------------------------------------------------------------- Uint8Array
\* A byte array is [length, runs]: runs is the content, run-length encoded as
\* a sequence of [n, v] (n consecutive bytes of value v).
Uint8Array(len) == [length |-> len, runs |-> <<[n |-> len, v |-> 0]>>]

RECURSIVE RunAt(_, _, _)
RunAt(runs, r, i) ==
  IF r > Len(runs) THEN -1
  ELSE IF i < runs[r].n THEN runs[r].v
  ELSE RunAt(runs, r + 1, i - runs[r].n)

\* arr[i]; -1 stands for undefined (an index outside the array)
At(arr, i) == IF i < 0 \/ i >= arr.length THEN -1 ELSE RunAt(arr.runs, 1, i)

ByteNum(b) == IF b = -1 THEN Undefined ELSE Whole(b)

\* -------------------------------------------------------- AudioEnvironment
\* A loop is unrolled by halving: the first n iterations from the locals st are
\* the first n \div 2 followed by the rest, each iteration guarded by the loop's
\* own condition on the locals.

\* LoudnessBody with bassSum taken after the sample at mid was added
LoudnessBody_late(env, mid, st) ==
  LET b == At(env.byteFrequencyData, st.i)
      sum == IF b # 0 /\ b # -1 THEN st.sum + b ELSE st.sum
      activeCount == IF b # 0 /\ b # -1 THEN st.activeCount + 1 ELSE st.activeCount
  IN  [i |-> st.i + 1, sum |-> sum, activeCount |-> activeCount,
       bassSum |-> IF StrictEq(Whole(st.i), mid) THEN Whole(sum) ELSE st.bassSum]

\* getAverageLoudness, lines 157-162 and the i++ of line 156: one iteration
LoudnessBody(env, mid, st) ==
  LET bassSum == IF StrictEq(Whole(st.i), mid) THEN Whole(st.sum) ELSE st.bassSum
      b == At(env.byteFrequencyData, st.i)
  IN  IF b # 0 /\ b # -1
      THEN [i |-> st.i + 1, sum |-> st.sum + b, activeCount |-> st.activeCount + 1,
            bassSum |-> bassSum]
      ELSE [i |-> st.i + 1, sum |-> st.sum, activeCount |-> st.activeCount,
            bassSum |-> bassSum]

\* getAverageLoudness, line 156: for(...; i < this.analyser.frequencyBinCount; i++)
RECURSIVE LoudnessLoop(_, _, _, _)
LoudnessLoop(env, mid, n, st) ==
  IF n = 0 \/ ~(st.i < env.analyser.frequencyBinCount) THEN st
  ELSE IF n = 1 THEN LoudnessBody(env, mid, st)
  ELSE LoudnessLoop(env, mid, n - (n \div 2), LoudnessLoop(env, mid, n \div 2, st))

\* ActiveCount with the decrement of line 165 left out
ActiveCount_noDecrement(activeCount) == activeCount

\* line 165: if(activeCount > 1) activeCount--
ActiveCount(activeCount) == IF activeCount > 1 THEN activeCount - 1 ELSE activeCount

getAverageLoudness(env) ==
  LET mid == Num(env.analyser.frequencyBinCount, 2)
      st  == LoudnessLoop(env, mid, env.analyser.frequencyBinCount,
                          [i |-> 0, sum |-> 0, activeCount |-> 1, bassSum |-> Undefined])
      activeCount == ActiveCount(st.activeCount)
      average == Div(Whole(st.sum), Whole(env.analyser.frequencyBinCount))
      activeAverage == Div(Whole(st.sum), Whole(activeCount))
      adjustedAverage == Add(average, Div(activeAverage, Whole(2)))
      bassAvg == Div(st.bassSum, mid)
      trebAvg == Div(Sub(Whole(st.sum), st.bassSum), mid)
  IN  [average |-> average, activeAverage |-> activeAverage,
       adjustedAverage |-> adjustedAverage, bassAvg |-> bassAvg, trebAvg |-> trebAvg]

\* getSimplifiedValues, lines 186-187 and the j++ of line 185; st = [j, sum, f]
BucketBody(env, st) ==
  [j |-> st.j + 1,
   sum |-> Add(st.sum, ByteNum(At(env.byteFrequencyData, st.f))),
   f |-> st.f + 1]

\* getSimplifiedValues, line 185: for(let j = 0; j < fftBinsPerBin; j++)
RECURSIVE BucketLoop(_, _, _, _)
BucketLoop(env, fftBinsPerBin, n, st) ==
  IF n = 0 \/ ~(st.j < fftBinsPerBin) THEN st
  ELSE IF n = 1 THEN BucketBody(env, st)
  ELSE BucketLoop(env, fftBinsPerBin, n - (n \div 2),
                  BucketLoop(env, fftBinsPerBin, n \div 2, st))

\* Normalised without the division by 255
Normalised_raw(sum, fftBinsPerBin) == Div(sum, Whole(fftBinsPerBin))

\* line 189: (sum/fftBinsPerBin)/255
Normalised(sum, fftBinsPerBin) == Div(Div(sum, Whole(fftBinsPerBin)), Whole(255))

\* getSimplifiedValues, lines 183-190: the outer loop; st = [i, binsArray, f]
RECURSIVE SimplifyLoop(_, _, _, _)
SimplifyLoop(env, nBins, fftBinsPerBin, st) ==
  IF ~(st.i < nBins) THEN st
  ELSE LET b == BucketLoop(env, fftBinsPerBin, fftBinsPerBin,
                           [j |-> 0, sum |-> Whole(0), f |-> st.f])
       IN  SimplifyLoop(env, nBins, fftBinsPerBin,
             [i |-> st.i + 1,
              binsArray |-> [st.binsArray EXCEPT ![st.i + 1] =
                               Normalised(b.sum, fftBinsPerBin)],
              f |-> b.f])

\* getSimplifiedValues: the array after the call, and f, the number of samples
\* read (the indices read are 0..f-1)
getSimplifiedValues(env, binsArray) ==
  LET nBins == Len(binsArray)
      maxFFTIdx == Floor07(env.analyser.frequencyBinCount)
      fftBinsPerBin == maxFFTIdx \div nBins
      st == SimplifyLoop(env, nBins, fftBinsPerBin, [i |-> 0, binsArray |-> binsArray, f |-> 0])
  IN  [binsArray |-> st.binsArray, f |-> st.f]

\* ---------------------------------------------------------- the platform
\* AnalyserNode: frequencyBinCount is half of fftSize
Analyser(fftSize) == [fftSize |-> fftSize, frequencyBinCount |-> fftSize \div 2]

\* What the analyser holds when a tick reads it: the level of the lower and of
\* the upper half of the spectrum.
SnapshotSeq == <<[bass |-> 0, treble |-> 0], [bass |-> 200, treble |-> 40]>>

Snapshots == {SnapshotSeq[i] : i \in 1..Len(SnapshotSeq)}

\* analyser.getByteFrequencyData(array): the array, overwritten
getByteFrequencyData(analyser, snap) ==
  [length |-> analyser.frequencyBinCount,
   runs |-> <<[n |-> analyser.frequencyBinCount \div 2, v |-> snap.bass],
              [n |-> analyser.frequencyBinCount - (analyser.frequencyBinCount \div 2),
               v |-> snap.treble]>>]

\* analyser.getByteTimeDomainData(array): the array, overwritten
getByteTimeDomainData(analyser, snap) ==
  [length |-> analyser.fftSize,
   runs |-> <<[n |-> analyser.fftSize \div 2, v |-> 128 + (snap.bass \div 2)],
              [n |-> analyser.fftSize - (analyser.fftSize \div 2),
               v |-> 128 - (snap.bass \div 2)]>>]

Handlers == 1..MaxClicks

Null == 0

NoError == "none"
SingletonError == "AudioEnvironment is a Singleton. It can only be created once!"
TypeError == "TypeError: visualizer is undefined"

Value(k, ref) == [k |-> k, ref |-> ref]

\* The handlers that are not between an await's settling and their own return:
\* a click, a permission outcome, a timer or a frame callback is a task, and a
\* task starts only when no continuation is queued.
NoMicrotask == \A h \in Handlers : pc[h] \in {"idle", "getUserMedia", "done", "rejected"}

\* ------------------------------------------------------- AudioEnvironment
\* the constructor without the guard of lines 143-144
AudioEnvironmentConstructor_noGuard(sharedNow, ctx, analyser, streamSrc) ==
  [threw |-> FALSE,
   this |-> <<[ctx |-> ctx, analyser |-> analyser, streamSrc |-> streamSrc,
               byteFrequencyData |-> Uint8Array(analyser.frequencyBinCount),
               timeDomainData |-> Uint8Array(analyser.fftSize),
               refreshes |-> 0]>>]

\* constructor, lines 142-150
AudioEnvironmentConstructor(sharedNow, ctx, analyser, streamSrc) ==
  IF sharedNow # Null
  THEN [threw |-> TRUE, this |-> <<>>]
  ELSE [threw |-> FALSE,
        this |-> <<[ctx |-> ctx, analyser |-> analyser, streamSrc |-> streamSrc,
                    byteFrequencyData |-> Uint8Array(analyser.frequencyBinCount),
                    timeDomainData |-> Uint8Array(analyser.fftSize),
                    refreshes |-> 0]>>]

\* ------------------------------------------------------------ visualizer
\* line 303: Array(SIMPLE_BINS).fill(0)
SimpleStart == [b \in 1..SIMPLE_BINS |-> Whole(0)]

\* initializeVisualizer, lines 241-303: what the closure starts with
NewVisualizer(audioEnv) ==
  [audioEnv |-> audioEnv,
   t |-> 65,
   ct |-> 0,
   simple |-> SimpleStart,
   camera |-> [p |-> Undefined, next |-> Undefined],
   bloomStrength |-> Num(3, 2),
   tubeScaleZ |-> Whole(1),
   starScale |-> <<Whole(1), Whole(1), Whole(1)>>,
   hueRotate |-> Undefined,
   contrast |-> Undefined,
   bars |-> <<>>,
   frame |-> 0,
   rendered |-> <<>>]

\* updateCamera without the halving of line 292
updateCamera_fullSpeed(t) ==
  LET time == Whole(t)
      p == Div(Mod(time, Whole(LOOP_TIME)), Whole(LOOP_TIME))
      next == Add(p, Num(3, 100))
  IN  [p |-> p, next |-> next]

\* updateCamera, lines 291-299: the curve parameters of the camera and its target
updateCamera(t) ==
  LET time == Mul(Whole(t), Num(1, 2))
      p == Div(Mod(time, Whole(LOOP_TIME)), Whole(LOOP_TIME))
      next == Add(p, Num(3, 100))
  IN  [p |-> p, next |-> next]

\* animate works on w = [v, e, m]: the closure, the AudioEnvironment, the metrics

\* lines 307-308: place the camera and render the scene as it stands
renderFrame(w) ==
  LET camera == updateCamera(w.v.t)
  IN  [w EXCEPT !.v.camera = camera,
                !.v.frame = @ + 1,
                !.v.rendered = <<[frame |-> w.v.frame + 1,
                                  camera |-> camera,
                                  bloomStrength |-> w.v.bloomStrength,
                                  tubeScaleZ |-> w.v.tubeScaleZ,
                                  starScale |-> w.v.starScale]>>]

\* lines 311-312
refreshAudio(w, snap) ==
  [w EXCEPT !.e.byteFrequencyData = getByteFrequencyData(w.e.analyser, snap),
            !.e.timeDomainData = getByteTimeDomainData(w.e.analyser, snap),
            !.e.refreshes = @ + 1]

\* Both feature extractions read of the AudioEnvironment its frame and the
\* frame's length only. Their results for the frames the analyser can hold are
\* tabulated, so that a tick looks them up instead of running the loops again;
\* any other input is computed on the spot.
FrameOf(e) ==
  [analyser |-> [frequencyBinCount |-> e.analyser.frequencyBinCount],
   byteFrequencyData |-> e.byteFrequencyData]

LiveFrame(i) == FrameOf([analyser |-> Analyser(FFT_SIZE),
                         byteFrequencyData |-> getByteFrequencyData(Analyser(FFT_SIZE), SnapshotSeq[i])])

LoudnessEntry(f) == [in |-> f, out |-> getAverageLoudness(f)]

LoudnessTable == <<LoudnessEntry(LiveFrame(1)), LoudnessEntry(LiveFrame(2))>>

SimplifiedEntry(f, simple) ==
  [in |-> <<f, simple>>, out |-> getSimplifiedValues(f, simple).binsArray]

SimpleOf1 == SimplifiedEntry(LiveFrame(1), SimpleStart)

SimpleOf2 == SimplifiedEntry(LiveFrame(2), SimpleStart)

SimplifiedTable ==
  <<SimpleOf1, SimpleOf2,
    SimplifiedEntry(LiveFrame(1), SimpleOf1.out), SimplifiedEntry(LiveFrame(1), SimpleOf2.out),
    SimplifiedEntry(LiveFrame(2), SimpleOf1.out), SimplifiedEntry(LiveFrame(2), SimpleOf2.out)>>

Hits(table, in) == {i \in 1..Len(table) : table[i].in = in}

\* audioEnv.getSimplifiedValues(simple), by the table where it has the input
SimplifiedOf(e, simple) ==
  LET hits == Hits(SimplifiedTable, <<FrameOf(e), simple>>)
  IN  IF hits # {}
      THEN SimplifiedTable[CHOOSE i \in hits : TRUE].out
      ELSE getSimplifiedValues(e, simple).binsArray

\* audioEnv.getAverageLoudness(), by the table where it has the input
LoudnessOf(e) ==
  LET hits == Hits(LoudnessTable, FrameOf(e))
  IN  IF hits # {}
      THEN LoudnessTable[CHOOSE i \in hits : TRUE].out
      ELSE getAverageLoudness(e)

\* line 313
simplifyAudio(w) == [w EXCEPT !.v.simple = SimplifiedOf(w.e, w.v.simple)]

\* line 316
analyzeAudio(w) == [w EXCEPT !.m = LoudnessOf(w.e)]

\* line 320
BloomStrength(m) == Mul(Div(m.adjustedAverage, Whole(255)), Whole(150))

\* line 323: 1+(0.2*Math.sin(x)), kept as its argument x
ScaleAmount(m, ct) ==
  LET x == Div(Add(m.bassAvg, Whole(ct)), Whole(1000))
  IN  [k |-> "1+(0.2*Math.sin(n/d))", n |-> x.n, d |-> x.d]

\* lines 327-329: the angle of hue-rotate
HueRotate(m, ct) == Div(Add(Whole(ct), m.trebAvg), Whole(HUE_ROTATE_AMOUNT))

\* line 329: the argument of contrast
Contrast(m) == MathMin(MathAbs(Sub(m.bassAvg, m.trebAvg)), Whole(5))

\* line 340
StarScale(m) ==
  <<Div(m.trebAvg, Whole(255)),
    Div(Div(Add(m.trebAvg, m.bassAvg), Whole(2)), Whole(255)),
    Div(m.trebAvg, Whole(255))>>

\* lines 320-329
applyLoudness(w) ==
  [w EXCEPT !.v.bloomStrength = BloomStrength(w.m),
            !.v.tubeScaleZ = ScaleAmount(w.m, w.v.ct),
            !.v.hueRotate = HueRotate(w.m, w.v.ct),
            !.v.contrast = Contrast(w.m)]

\* NextTubeTick wrapping to the start of the curve
NextTubeTick_toZero(t) == IF t + 1 > 1000 THEN 0 ELSE t + 1

\* lines 332 and 336
NextTubeTick(t) == IF t + 1 > 1000 THEN 144 ELSE t + 1

\* lines 332-336
incrementTick(w) == [w EXCEPT !.v.t = NextTubeTick(w.v.t), !.v.ct = @ + 1]

\* lines 339-341
scaleStars(w) == [w EXCEPT !.v.starScale = StarScale(w.m)]

\* drawBars, lines 276-289: the height of each bar
drawBars(w) ==
  [w EXCEPT !.v.bars = [b \in 1..Len(w.v.simple) |-> Mul(w.v.simple[b], Whole(255))]]

\* animate rendering after the parameters of the tick are set
animate_renderLast(w, snap) ==
  drawBars(scaleStars(incrementTick(renderFrame(applyLoudness(
    analyzeAudio(simplifyAudio(refreshAudio(w, snap))))))))

\* animate, lines 305-343
animate(w, snap) ==
  drawBars(scaleStars(incrementTick(applyLoudness(
    analyzeAudio(simplifyAudio(refreshAudio(renderFrame(w), snap)))))))

\* lines 344-346: setTimeout(() => requestAnimationFrame(animate), 17)
setTimeoutAnimate(pending, h) == [pending EXCEPT ![h] = @ + 1]

\* the handler leaving the start button on show
hideStartButton_forgotten == ""

\* line 361
hideStartButton == "none"

\* one call of animate by the visualizer of handler h
Tick(h, snap) ==
  LET id == viz[h][1].audioEnv
      w  == animate([v |-> viz[h][1], e |-> audioEnvs[id][1], m |-> <<>>], snap)
  IN  /\ viz' = [viz EXCEPT ![h] = <<w.v>>]
      /\ audioEnvs' = [audioEnvs EXCEPT ![id] = <<w.e>>]
      /\ timers' = setTimeoutAnimate(timers, h)

\* ------------------------------------------------------------------- Init
Init ==
  /\ shared = Null
  /\ audioEnvs = [h \in Handlers |-> <<>>]
  /\ streams = {}
  /\ contexts = {}
  /\ clicks = 0
  /\ pc = [h \in Handlers |-> "idle"]
  /\ mic = [h \in Handlers |-> "none"]
  /\ ret = [h \in Handlers |-> Value("none", Null)]
  /\ error = [h \in Handlers |-> NoError]
  /\ startDisplay = ""
  /\ viz = [h \in Handlers |-> <<>>]
  /\ timers = [h \in Handlers |-> 0]
  /\ rafs = [h \in Handlers |-> 0]
  /\ console = <<>>
  /\ subject = <<>>
  /\ bins = <<>>
  /\ loudness = <<>>
  /\ simplifyRun = <<>>

\* ---------------------------------------------------------------- actions
\* The start button is clicked (lines 359-360): the handler calls
\* initializeVisualizer, which calls AudioEnvironment.use (lines 121-123), which
\* either finds the shared session or calls getMicrophone, which calls
\* getUserMedia (line 18) and waits.
Click(maxClicks) ==
  /\ clicks < maxClicks
  /\ startDisplay # "none"
  /\ NoMicrotask
  /\ clicks' = clicks + 1
  /\ IF shared = Null
     THEN /\ pc' = [pc EXCEPT ![clicks + 1] = "getUserMedia"]
          /\ mic' = [mic EXCEPT ![clicks + 1] = "pending"]
          /\ ret' = ret
     ELSE /\ pc' = [pc EXCEPT ![clicks + 1] = "initializeVisualizer"]
          /\ ret' = [ret EXCEPT ![clicks + 1] = Value("AudioEnvironment", shared)]
          /\ mic' = mic
  /\ UNCHANGED <<shared, audioEnvs, streams, contexts, error, startDisplay, viz,
                 timers, rafs, console, featureVars>>

\* getUserMedia resolves with a stream
MicGranted(h) ==
  /\ pc[h] = "getUserMedia"
  /\ NoMicrotask
  /\ streams' = streams \cup {h}
  /\ mic' = [mic EXCEPT ![h] = "stream"]
  /\ pc' = [pc EXCEPT ![h] = "getMicrophone"]
  /\ UNCHANGED <<shared, audioEnvs, contexts, clicks, ret, error, startDisplay, viz,
                 timers, rafs, console, featureVars>>

\* getUserMedia rejects: permission denied, or no device
MicDenied(h) ==
  /\ pc[h] = "getUserMedia"
  /\ NoMicrotask
  /\ mic' = [mic EXCEPT ![h] = "error"]
  /\ pc' = [pc EXCEPT ![h] = "getMicrophone"]
  /\ UNCHANGED <<shared, audioEnvs, streams, contexts, clicks, ret, error, startDisplay,
                 viz, timers, rafs, console, featureVars>>

\* getMicrophone after its await, lines 21-26
GetMicrophoneResume(h) ==
  /\ pc[h] = "getMicrophone"
  /\ pc' = [pc EXCEPT ![h] = "use"]
  /\ IF mic[h] = "stream"
     THEN /\ ret' = [ret EXCEPT ![h] = Value("MediaStream", h)]
          /\ console' = console
     ELSE /\ ret' = [ret EXCEPT ![h] = Value("null", Null)]
          /\ console' = console \o <<"warn: Failed to get microphone stream.">>
  /\ UNCHANGED <<shared, audioEnvs, streams, contexts, clicks, mic, error, startDisplay,
                 viz, timers, rafs, featureVars>>

\* AudioEnvironment.use after its await, lines 123-133
UseResume(h) ==
  /\ pc[h] = "use"
  /\ pc' = [pc EXCEPT ![h] = "initializeVisualizer"]
  /\ IF ret[h].k = "null"
     THEN /\ ret' = [ret EXCEPT ![h] = Value("null", Null)]
          /\ UNCHANGED <<shared, audioEnvs, contexts, error>>
     ELSE LET new == AudioEnvironmentConstructor(shared, h, Analyser(FFT_SIZE), h)
          IN  /\ contexts' = contexts \cup {h}
              /\ IF new.threw
                 THEN /\ ret' = [ret EXCEPT ![h] = Value("throw", Null)]
                      /\ error' = [error EXCEPT ![h] = SingletonError]
                      /\ UNCHANGED <<shared, audioEnvs>>
                 ELSE /\ audioEnvs' = [audioEnvs EXCEPT ![h] = new.this]
                      /\ shared' = h
                      /\ ret' = [ret EXCEPT ![h] = Value("AudioEnvironment", h)]
                      /\ error' = error
  /\ UNCHANGED <<streams, clicks, mic, startDisplay, viz, timers, rafs, console,
                 featureVars>>

\* initializeVisualizer after its await, lines 236-349
InitializeVisualizerResume(h) ==
  /\ pc[h] = "initializeVisualizer"
  /\ pc' = [pc EXCEPT ![h] = "click"]
  /\ IF ret[h].k = "throw"
     THEN UNCHANGED <<ret, viz, console>>
     ELSE IF ret[h].k = "null"
     THEN /\ ret' = [ret EXCEPT ![h] = Value("undefined", Null)]
          /\ console' = console \o <<"error: failed to get audio environment...">>
          /\ viz' = viz
     ELSE /\ viz' = [viz EXCEPT ![h] = <<NewVisualizer(ret[h].ref)>>]
          /\ ret' = [ret EXCEPT ![h] = Value("visualizer", h)]
          /\ console' = console
  /\ UNCHANGED <<shared, audioEnvs, streams, contexts, clicks, mic, error, startDisplay,
                 timers, rafs, featureVars>>

\* the click handler after its await, lines 360-362; visualizer.animate() is
\* the first tick
ClickResume(h) ==
  /\ pc[h] = "click"
  /\ IF ret[h].k = "throw"
     THEN /\ pc' = [pc EXCEPT ![h] = "rejected"]
          /\ UNCHANGED <<startDisplay, error, viz, audioEnvs, timers>>
     ELSE /\ startDisplay' = hideStartButton
          /\ IF ret[h].k = "undefined"
             THEN /\ pc' = [pc EXCEPT ![h] = "rejected"]
                  /\ error' = [error EXCEPT ![h] = TypeError]
                  /\ UNCHANGED <<viz, audioEnvs, timers>>
             ELSE /\ pc' = [pc EXCEPT ![h] = "done"]
                  /\ error' = error
                  /\ \E snap \in Snapshots : Tick(h, snap)
  /\ UNCHANGED <<shared, streams, contexts, clicks, mic, ret, rafs, console, featureVars>>

\* the timer of lines 344-346 fires: requestAnimationFrame(animate)
TimerFire(h) ==
  /\ timers[h] > 0
  /\ NoMicrotask
  /\ timers' = [timers EXCEPT ![h] = @ - 1]
  /\ rafs' = [rafs EXCEPT ![h] = @ + 1]
  /\ UNCHANGED <<shared, audioEnvs, streams, contexts, clicks, pc, mic, ret, error,
                 startDisplay, viz, console, featureVars>>

\* the frame callback: animate, lines 305-347
Animate(h, maxTicks) ==
  /\ rafs[h] > 0
  /\ NoMicrotask
  /\ viz[h][1].ct < maxTicks
  /\ rafs' = [rafs EXCEPT ![h] = @ - 1]
  /\ \E snap \in Snapshots : Tick(h, snap)
  /\ UNCHANGED <<shared, streams, contexts, clicks, pc, mic, ret, error, startDisplay,
                 console, featureVars>>

Next ==
  \/ Click(MaxClicks)
  \/ \E h \in Handlers : MicGranted(h)
  \/ \E h \in Handlers : MicDenied(h)
  \/ \E h \in Handlers : GetMicrophoneResume(h)
  \/ \E h \in Handlers : UseResume(h)
  \/ \E h \in Handlers : InitializeVisualizerResume(h)
  \/ \E h \in Handlers : ClickResume(h)
  \/ \E h \in Handlers : TimerFire(h)
  \/ \E h \in Handlers : Animate(h, MaxTicks)

Spec == Init /\ [][Next]_vars

\* One start request whose capture is granted, and the loop it starts, run far
\* enough for tubeTick to wrap.
NextLoop ==
  \/ Click(1)
  \/ MicGranted(1)
  \/ GetMicrophoneResume(1)
  \/ UseResume(1)
  \/ InitializeVisualizerResume(1)
  \/ ClickResume(1)
  \/ TimerFire(1)
  \/ Animate(1, LoopTicks)

SpecLoop == Init /\ [][NextLoop]_vars

\* The AudioEnvironment methods on frames of every length up to MaxL and output
\* arrays of every length up to MaxN.
SampleBytes == {0, 1, 255}

ByteArray(bytes) ==
  [length |-> Len(bytes), runs |-> [i \in 1..Len(bytes) |-> [n |-> 1, v |-> bytes[i]]]]

InitFeature ==
  /\ shared = Null
  /\ audioEnvs = [h \in Handlers |-> <<>>]
  /\ streams = {}
  /\ contexts = {}
  /\ clicks = 0
  /\ pc = [h \in Handlers |-> "idle"]
  /\ mic = [h \in Handlers |-> "none"]
  /\ ret = [h \in Handlers |-> Value("none", Null)]
  /\ error = [h \in Handlers |-> NoError]
  /\ startDisplay = ""
  /\ viz = [h \in Handlers |-> <<>>]
  /\ timers = [h \in Handlers |-> 0]
  /\ rafs = [h \in Handlers |-> 0]
  /\ console = <<>>
  /\ \E L \in 1..MaxL : \E bytes \in [1..L -> SampleBytes] :
       subject = [ctx |-> 0, analyser |-> Analyser(2 * L), streamSrc |-> 0,
                  byteFrequencyData |-> ByteArray(bytes),
                  timeDomainData |-> Uint8Array(2 * L),
                  refreshes |-> 1]
  /\ \E N \in 1..MaxN : bins = [b \in 1..N |-> Whole(0)]
  /\ loudness = <<>>
  /\ simplifyRun = <<>>

CallGetAverageLoudness ==
  /\ loudness' = <<getAverageLoudness(subject)>>
  /\ UNCHANGED <<sessionVars, subject, bins, simplifyRun>>

CallGetSimplifiedValues ==
  /\ LET r == getSimplifiedValues(subject, bins)
     IN  /\ bins' = r.binsArray
         /\ simplifyRun' = <<[nBins |-> Len(bins), f |-> r.f]>>
  /\ UNCHANGED <<sessionVars, subject, loudness>>

NextFeature == CallGetAverageLoudness \/ CallGetSimplifiedValues

SpecFeature == InitFeature /\ [][NextFeature]_vars

\* ------------------------------------------------------------- properties
\* the sum of the samples lo..hi-1 of a byte array
RECURSIVE SumRange(_, _, _)
SumRange(arr, lo, hi) == IF lo >= hi THEN 0 ELSE At(arr, lo) + SumRange(arr, lo + 1, hi)

NonZeroCount(arr) == Cardinality({i \in 0..(arr.length - 1) : At(arr, i) # 0})

RECURSIVE PendingUpTo(_)
PendingUpTo(h) == IF h = 0 THEN 0 ELSE timers[h] + rafs[h] + PendingUpTo(h - 1)

\* the callbacks scheduled and not yet run
PendingTicks == PendingUpTo(MaxClicks)

\* a step in which the visualizer of handler h runs one tick
TickOf(h) ==
  /\ viz[h] # <<>>
  /\ viz'[h] # <<>>
  /\ viz'[h][1].frame = viz[h][1].frame + 1

\* C1: at most one capture stream is ever granted and at most one audio
\* context (with its analyser) is ever created, however acquire calls overlap.
C1_OneStreamOneContext ==
  /\ Cardinality(streams) <= 1
  /\ Cardinality(contexts) <= 1

\* C2: a start request whose capture is unavailable gets None from acquire,
\* leaves the shared session absent, starts no tick, and ends without an error
\* raised out of the start handler.
C2_DeniedStartIsNotFatal ==
  \A h \in Handlers :
    mic[h] = "error" =>
      /\ pc[h] = "initializeVisualizer" => ret[h].k = "null"
      /\ shared # h
      /\ audioEnvs[h] = <<>>
      /\ h \notin streams
      /\ viz[h] = <<>>
      /\ timers[h] = 0 /\ rafs[h] = 0
      /\ error[h] = NoError

\* C3 as claimed: between any two consecutive ticks, the pair across the wrap
\* included, the camera parameter p changes by less than 0.03.
C3_NoCameraJump ==
  [][\A h \in Handlers :
       (TickOf(h) /\ viz[h][1].frame >= 1) =>
         Less(MathAbs(Sub(viz'[h][1].camera.p, viz[h][1].camera.p)), Num(3, 100))]_vars

\* C3 as amended: between two consecutive ticks p grows by exactly
\* 0.5 / LOOP_TIME, except across the wrap, where the tick after the one that
\* ran with tubeTick = 1000 (p = 0.1) has p = 0.0144: a drop of 0.0856, which is
\* not below 0.03.
C3_CameraStepAndWrapJump ==
  [][\A h \in Handlers :
       (TickOf(h) /\ viz[h][1].frame >= 1) =>
         LET p == viz[h][1].camera.p
             q == viz'[h][1].camera.p
         IN  IF StrictEq(p, Num(1000, 2 * LOOP_TIME))
             THEN /\ StrictEq(q, Num(144, 2 * LOOP_TIME))
                  /\ StrictEq(Sub(p, q), Num(856, 10000))
                  /\ ~Less(MathAbs(Sub(q, p)), Num(3, 100))
             ELSE /\ StrictEq(Sub(q, p), Num(1, 2 * LOOP_TIME))
                  /\ Less(MathAbs(Sub(q, p)), Num(3, 100))]_vars

\* the tick after the wrap has run: the camera stands at p = 0.0144
C3_Witness ==
  \E h \in Handlers :
    /\ viz[h] # <<>>
    /\ viz[h][1].ct >= 937
    /\ viz[h][1].camera.p = Num(144, 2 * LOOP_TIME)

\* what C4 promises of a call of getSimplifiedValues on a frame of length L
\* with an output array of length N
SimplifiedIsSound(L, N) ==
  /\ Len(bins) = N
  /\ \A i \in 1..N :
       /\ IsNum(bins[i])
       /\ LessEq(Whole(0), bins[i])
       /\ LessEq(bins[i], Whole(1))
  /\ simplifyRun[1].f <= L

\* C4 as claimed: for every N >= 1 and L >= N the call leaves N outputs, each a
\* number in [0,1], and reads no sample at or beyond L.
C4_SimplifyTotal ==
  simplifyRun # <<>> =>
    LET L == subject.analyser.frequencyBinCount
        N == simplifyRun[1].nBins
    IN  (N >= 1 /\ L >= N) => SimplifiedIsSound(L, N)

\* C4 as amended: the same for every N >= 1 and every L with
\* floor(0.7 * L) >= N, that is with at least one sample per bucket.
C4_SimplifyWithOneSamplePerBucket ==
  simplifyRun # <<>> =>
    LET L == subject.analyser.frequencyBinCount
        N == simplifyRun[1].nBins
    IN  (N >= 1 /\ (7 * L) \div 10 >= N) => SimplifiedIsSound(L, N)

\* a call with two buckets that left a value strictly between 0 and 1
C4_Witness ==
  /\ simplifyRun # <<>>
  /\ simplifyRun[1].nBins >= 2
  /\ (7 * subject.analyser.frequencyBinCount) \div 10 >= simplifyRun[1].nBins
  /\ \E i \in 1..Len(bins) : Less(Whole(0), bins[i]) /\ Less(bins[i], Whole(1))

\* what C5 promises of the averages of the two halves of a frame of length L
HalvesAddUp(L) ==
  LET mid == L \div 2
      data == subject.byteFrequencyData
      m == loudness[1]
  IN  /\ IsNum(m.bassAvg)
      /\ IsNum(m.trebAvg)
      /\ StrictEq(Add(Mul(m.bassAvg, Whole(mid)), Mul(m.trebAvg, Whole(mid))),
                  Whole(SumRange(data, 0, L)))
      /\ StrictEq(Mul(m.bassAvg, Whole(mid)), Whole(SumRange(data, 0, mid)))

\* C5 as claimed: for every frame of length L >= 2, even or odd, with
\* mid = floor(L/2), bassAverage * mid + trebleAverage * mid is the sum of the
\* samples and bassAverage * mid the sum over [0, mid).
C5_HalvesAddUpAnyLength ==
  (loudness # <<>> /\ subject.analyser.frequencyBinCount >= 2) =>
    HalvesAddUp(subject.analyser.frequencyBinCount)

\* C5 as amended: the same for every frame of even length L >= 2.
C5_HalvesAddUpEvenLength ==
  (/\ loudness # <<>>
   /\ subject.analyser.frequencyBinCount >= 2
   /\ subject.analyser.frequencyBinCount % 2 = 0) =>
    HalvesAddUp(subject.analyser.frequencyBinCount)

\* the loudness of a frame of even length whose halves differ and are not silent
C5_Witness ==
  /\ loudness # <<>>
  /\ subject.analyser.frequencyBinCount = 4
  /\ LET data == subject.byteFrequencyData
     IN  /\ SumRange(data, 0, 2) > 0
         /\ SumRange(data, 2, 4) > SumRange(data, 0, 2)
         /\ At(data, 2) # 0

\* C6: activeCount is the number of nonzero samples, or 1 when there is none;
\* average = sum / L, activeAverage = sum / activeCount, adjustedAverage =
\* average + activeAverage / 2; a silent frame gives 0, 0, 0 and a frame of
\* samples all equal to v > 0 gives v, v, 1.5 v.
C6_LoudnessAverages ==
  loudness # <<>> =>
    LET L == subject.analyser.frequencyBinCount
        data == subject.byteFrequencyData
        sum == SumRange(data, 0, L)
        nonzero == NonZeroCount(data)
        activeCount == IF nonzero >= 1 THEN nonzero ELSE 1
        m == loudness[1]
    IN  /\ StrictEq(m.average, Num(sum, L))
        /\ StrictEq(m.activeAverage, Num(sum, activeCount))
        /\ StrictEq(m.adjustedAverage, Add(Num(sum, L), Num(sum, 2 * activeCount)))
        /\ nonzero = 0 =>
             /\ StrictEq(m.average, Whole(0))
             /\ StrictEq(m.activeAverage, Whole(0))
             /\ StrictEq(m.adjustedAverage, Whole(0))
        /\ \A v \in 1..255 :
             (\A i \in 0..(L - 1) : At(data, i) = v) =>
               /\ StrictEq(m.average, Whole(v))
               /\ StrictEq(m.activeAverage, Whole(v))
               /\ StrictEq(m.adjustedAverage, Num(3 * v, 2))

\* the loudness of a frame of three samples, all 255
C6_Witness ==
  /\ loudness # <<>>
  /\ subject.analyser.frequencyBinCount = 3
  /\ \A i \in 0..2 : At(subject.byteFrequencyData, i) = 255

\* the render parameters animate derives from the frame of AudioEnvironment e
\* in a tick that starts with colorTick ct
DerivedFrom(e, ct) ==
  LET m == LoudnessOf(e)
  IN  [bloomStrength |-> BloomStrength(m),
       tubeScaleZ |-> ScaleAmount(m, ct),
       starScale |-> StarScale(m)]

\* C7 as claimed: the frame a tick renders shows the parameters derived from
\* the spectral frame refreshed in that same tick.
C7_RenderedFromThisTick ==
  \A h \in Handlers :
    (viz[h] # <<>> /\ viz[h][1].rendered # <<>>) =>
      LET v == viz[h][1]
          d == DerivedFrom(audioEnvs[v.audioEnv][1], v.ct - 1)
      IN  /\ v.rendered[1].bloomStrength = d.bloomStrength
          /\ v.rendered[1].tubeScaleZ = d.tubeScaleZ
          /\ v.rendered[1].starScale = d.starScale

\* C7 as amended: a tick first renders, with the parameters as the tick before
\* left them (the defaults in the first tick), then refreshes the buffers
\* exactly once, and derives its parameters and bars from the refreshed frame.
C7_RenderedFromTickBefore ==
  [][\A h \in Handlers :
       TickOf(h) =>
         LET v == viz[h][1]
             v2 == viz'[h][1]
             e == audioEnvs[v.audioEnv][1]
             e2 == audioEnvs'[v.audioEnv][1]
             d == DerivedFrom(e2, v.ct)
             simple == SimplifiedOf(e2, v.simple)
         IN  /\ v2.rendered[1].bloomStrength = v.bloomStrength
             /\ v2.rendered[1].tubeScaleZ = v.tubeScaleZ
             /\ v2.rendered[1].starScale = v.starScale
             /\ v2.rendered[1].camera = updateCamera(v.t)
             /\ e2.refreshes = e.refreshes + 1
             /\ \E snap \in Snapshots :
                  e2.byteFrequencyData = getByteFrequencyData(e2.analyser, snap)
             /\ v2.bloomStrength = d.bloomStrength
             /\ v2.tubeScaleZ = d.tubeScaleZ
             /\ v2.starScale = d.starScale
             /\ v2.simple = simple
             /\ v2.bars = [b \in 1..Len(simple) |-> Mul(simple[b], Whole(255))]]_vars

\* a second tick has rendered a glow that is not the one its own frame gives
C7_Witness ==
  \E h \in Handlers :
    /\ viz[h] # <<>>
    /\ viz[h][1].frame >= 2
    /\ viz[h][1].rendered[1].bloomStrength # Num(3, 2)
    /\ viz[h][1].rendered[1].bloomStrength # viz[h][1].bloomStrength

\* C8: whenever the constructor runs while a shared session exists it raises
\* the singleton error, and the shared session is left as it was.
C8_SecondConstructionThrows ==
  [][\A h \in Handlers :
       (/\ pc[h] = "use"
        /\ pc'[h] # "use"
        /\ ret[h].k = "MediaStream"
        /\ shared # Null) =>
         /\ error'[h] = SingletonError
         /\ ret'[h].k = "throw"
         /\ shared' = shared
         /\ audioEnvs'[shared] = audioEnvs[shared]
         /\ audioEnvs'[h] = <<>>]_vars

\* a handler was rejected with the singleton error while a session is shared
C8_Witness ==
  \E h \in Handlers :
    /\ error[h] = SingletonError
    /\ pc[h] = "rejected"
    /\ shared # Null
    /\ shared # h

\* C9: every tick adds one to colorTick and to tubeTick, tubeTick going to 144
\* instead of beyond 1000; tubeTick starts at 65, stays in 65..1000, and once it
\* is 144 or more it stays so; nothing else changes the two counters.
C9_TickAdvance ==
  /\ [](\A h \in Handlers :
          viz[h] # <<>> =>
            /\ viz[h][1].t \in 65..1000
            /\ viz[h][1].ct = viz[h][1].frame)
  /\ [][\A h \in Handlers :
          /\ (viz[h] = <<>> /\ viz'[h] # <<>>) =>
               (viz'[h][1].t = 65 /\ viz'[h][1].ct = 0)
          /\ (viz[h] # <<>> /\ viz'[h] # <<>>) =>
               IF viz'[h][1].frame = viz[h][1].frame + 1
               THEN /\ viz'[h][1].ct = viz[h][1].ct + 1
                    /\ viz'[h][1].t =
                         IF viz[h][1].t + 1 > 1000 THEN 144 ELSE viz[h][1].t + 1
                    /\ viz[h][1].t = 1000 => viz'[h][1].t = 144
                    /\ viz[h][1].t >= 144 => viz'[h][1].t >= 144
               ELSE /\ viz'[h][1].frame = viz[h][1].frame
                    /\ viz'[h][1].ct = viz[h][1].ct
                    /\ viz'[h][1].t = viz[h][1].t]_vars

\* the tick that ran with tubeTick = 1000 has wrapped it to 144
C9_Witness ==
  \E h \in Handlers :
    /\ viz[h] # <<>>
    /\ viz[h][1].t = 144
    /\ viz[h][1].ct = 936

\* C10: never more than one tick is scheduled, at most one loop exists, a loop
\* that has run a tick has exactly one successor scheduled, and the shared
\* buffers were refreshed once for each tick of that one loop.
C10_OneAnimationLoop ==
  /\ PendingTicks <= 1
  /\ Cardinality({h \in Handlers : viz[h] # <<>>}) <= 1
  /\ \A h \in Handlers :
       IF viz[h] # <<>> /\ viz[h][1].frame >= 1
       THEN /\ timers[h] + rafs[h] = 1
            /\ audioEnvs[viz[h][1].audioEnv][1].refreshes = viz[h][1].frame
       ELSE timers[h] + rafs[h] = 0

\* a loop is in its second tick after two clicks, the other click's handler
\* having ended
C10_Witness ==
  /\ clicks = 2
  /\ \E h \in Handlers :
       /\ viz[h] # <<>>
       /\ viz[h][1].frame >= 2
       /\ \E g \in Handlers \ {h} :
            pc[g] = "rejected" /\ error[g] = SingletonError
====
